---- MODULE Spec2Model ----
(***************************************************************************)
(* Model of rustsec's report generator (src/rustsec/src/report.rs):        *)
(* Report::generate, Settings::query, DatabaseInfo::new, LockfileInfo::new,*)
(* VulnerabilityInfo::new and find_warnings.                               *)
(*                                                                         *)
(* Option<T> is modelled as a sequence of length at most one:              *)
(* None is <<>> and Some(x) is <<x>>.  Vec<T> is a sequence.  The          *)
(* WarningInfo map is a function whose DOMAIN is the set of its keys.      *)
(***************************************************************************)
EXTENDS Integers, Sequences, FiniteSets, TLC

VARIABLES db, lockfile, settings, pc, base_query, base_matches,
          vulnerabilities, query, matches, i, warnings, report, first

vars == <<db, lockfile, settings, pc, base_query, base_matches,
          vulnerabilities, query, matches, i, warnings, report, first>>

\* ------------------------------------------------------------------ bounds
MaxAdvisories == 2

MaxPackages == 2

\* ------------------------------------------------------------ Option, Vec
None == <<>>

Some(x) == <<x>>

Range(s) == {s[k] : k \in 1..Len(s)}

\* Vec::contains: a linear scan from the front
RECURSIVE Contains(_, _)
Contains(vec, x) ==
    IF vec = <<>> THEN FALSE
    ELSE IF Head(vec) = x THEN TRUE
    ELSE Contains(Tail(vec), x)

\* ----------------------------------------------------- collaborators' data
Severities == <<"low", "medium", "high">>

SeverityRank(s) == CHOOSE k \in 1..Len(Severities) : Severities[k] = s

Informationals == {"unmaintained", "unsound", "other"}

WarningKinds == {"unmaintained", "unsound"}

\* advisory::Informational::warning_kind
warning_kind(info) ==
    IF info \in WarningKinds THEN Some(info) ELSE None

Packages == {"foo", "bar"}

\* The advisories a database is populated from: exploit and informational
\* advisories of every category, some restricted to a platform.
Advisories ==
    { [id |-> "ADV-001", package |-> "foo", severity |-> "high",
       informational |-> None, arch |-> None, os |-> None,
       versions |-> "<1.2"],
      [id |-> "ADV-002", package |-> "bar", severity |-> "low",
       informational |-> None, arch |-> Some("arm"), os |-> None,
       versions |-> "<0.3"],
      [id |-> "ADV-003", package |-> "foo", severity |-> "medium",
       informational |-> Some("unmaintained"), arch |-> None, os |-> None,
       versions |-> "*"],
      [id |-> "ADV-004", package |-> "bar", severity |-> "low",
       informational |-> Some("unsound"), arch |-> None, os |-> None,
       versions |-> "<2.0"],
      [id |-> "ADV-005", package |-> "foo", severity |-> "high",
       informational |-> Some("other"), arch |-> None, os |-> None,
       versions |-> "<1.0"],
      [id |-> "ADV-006", package |-> "bar", severity |-> "medium",
       informational |-> Some("unmaintained"), arch |-> None,
       os |-> Some("windows"), versions |-> "*"] }

\* Sequences of at most n elements of S
SeqsUpTo(S, n) == UNION {[1..k -> S] : k \in 0..n}

\* Sequences of at most n elements of S without repetition
DistinctSeqs(S, n) ==
    {s \in SeqsUpTo(S, n) :
        \A a, b \in 1..Len(s) : a # b => s[a] # s[b]}

\* Database::latest_commit, when the database has a git history
Commits ==
    { None,
      Some([commit_id |-> <<10, 0, 15>>, timestamp |-> 1700000000]) }

Databases ==
    { [advisories |-> a, latest_commit |-> c] :
        a \in DistinctSeqs(Advisories, MaxAdvisories), c \in Commits }

Lockfiles == { [packages |-> p] : p \in SeqsUpTo(Packages, MaxPackages) }

\* The platforms a report is generated for: none, an architecture only,
\* an architecture and an operating system
Targets ==
    { [arch |-> None, os |-> None],
      [arch |-> Some("x86_64"), os |-> None],
      [arch |-> Some("x86_64"), os |-> Some("linux")] }

SettingsSet ==
    { [target_arch |-> t.arch, target_os |-> t.os, severity |-> s,
       ignore |-> g, informational_warnings |-> w] :
        t \in Targets,
        s \in {None, Some("medium")},
        g \in {<<>>, <<"ADV-001", "ADV-003">>},
        w \in {<<"unmaintained">>,
               <<"unsound", "other", "unmaintained">>} }

\* Settings::default()
DefaultSettings ==
    [target_arch |-> None, target_os |-> None, severity |-> None,
     ignore |-> <<>>, informational_warnings |-> <<>>]

\* ---------------------------------------------------------- Query builder
Query_crate_scope ==
    [collection |-> "crates", target_arch |-> None, target_os |-> None,
     severity |-> None, informational |-> FALSE]

Query_target_arch(q, arch) == [q EXCEPT !.target_arch = Some(arch)]

Query_target_os(q, os) == [q EXCEPT !.target_os = Some(os)]

Query_severity(q, sev) == [q EXCEPT !.severity = Some(sev)]

Query_informational(q, setting) == [q EXCEPT !.informational = setting]

\* Settings::query without its severity branch
Settings_query_NoSeverity(s) ==
    LET q0 == Query_crate_scope
        q1 == IF s.target_arch # None
              THEN Query_target_arch(q0, s.target_arch[1]) ELSE q0
        q2 == IF s.target_os # None
              THEN Query_target_os(q1, s.target_os[1]) ELSE q1
    IN q2

\* Settings::query
Settings_query(s) ==
    LET q0 == Query_crate_scope
        q1 == IF s.target_arch # None
              THEN Query_target_arch(q0, s.target_arch[1]) ELSE q0
        q2 == IF s.target_os # None
              THEN Query_target_os(q1, s.target_os[1]) ELSE q1
        q3 == IF s.severity # None
              THEN Query_severity(q2, s.severity[1]) ELSE q2
    IN q3

\* Query::matches: platform and severity restrictions; without
\* informational mode only exploit advisories are returned, with it
\* informational advisories are returned as well.
Query_matches(q, advisory) ==
    /\ q.target_arch = None \/ advisory.arch = None
         \/ advisory.arch = q.target_arch
    /\ q.target_os = None \/ advisory.os = None
         \/ advisory.os = q.target_os
    /\ q.severity = None
         \/ SeverityRank(advisory.severity) >= SeverityRank(q.severity[1])
    /\ q.informational \/ advisory.informational = None

\* The advisories of the database, in database order, that affect a package
RECURSIVE package_vulnerabilities(_, _, _)
package_vulnerabilities(advisories, package, q) ==
    IF advisories = <<>> THEN <<>>
    ELSE LET a == Head(advisories)
             rest == package_vulnerabilities(Tail(advisories), package, q)
         IN IF a.package = package /\ Query_matches(q, a)
            THEN <<[advisory |-> a, package |-> package,
                    versions |-> a.versions]>> \o rest
            ELSE rest

\* Database::query_vulnerabilities: lockfile order, then database order
RECURSIVE query_packages(_, _, _)
query_packages(advisories, packages, q) ==
    IF packages = <<>> THEN <<>>
    ELSE package_vulnerabilities(advisories, Head(packages), q)
         \o query_packages(advisories, Tail(packages), q)

query_vulnerabilities(d, l, q) == query_packages(d.advisories, l.packages, q)

\* ------------------------------------------------------- report.rs proper
\* The ignore filter with its negation lost: keeps the ignored matches
RECURSIVE FilterIgnored_Inverted(_, _)
FilterIgnored_Inverted(s, vulns) ==
    IF vulns = <<>> THEN <<>>
    ELSE IF Contains(s.ignore, Head(vulns).advisory.id)
         THEN <<Head(vulns)>> \o FilterIgnored_Inverted(s, Tail(vulns))
         ELSE FilterIgnored_Inverted(s, Tail(vulns))

\* Report::generate, lines 41-45: the ignore filter over the query result
RECURSIVE FilterIgnored(_, _)
FilterIgnored(s, vulns) ==
    IF vulns = <<>> THEN <<>>
    ELSE IF ~Contains(s.ignore, Head(vulns).advisory.id)
         THEN <<Head(vulns)>> \o FilterIgnored(s, Tail(vulns))
         ELSE FilterIgnored(s, Tail(vulns))

\* CommitId::to_hex
HexDigits ==
    <<"0", "1", "2", "3", "4", "5", "6", "7",
      "8", "9", "a", "b", "c", "d", "e", "f">>

to_hex(commit_id) == [k \in 1..Len(commit_id) |-> HexDigits[commit_id[k] + 1]]

\* Option::map
Option_map_commit_id(opt) ==
    IF opt = None THEN None ELSE Some(to_hex(opt[1].commit_id))

Option_map_timestamp(opt) ==
    IF opt = None THEN None ELSE Some(opt[1].timestamp)

\* DatabaseInfo::new with defaults in place of absent commit metadata
DatabaseInfo_new_Sentinel(d) ==
    [advisory_count |-> Len(d.advisories),
     last_commit |-> IF d.latest_commit = None THEN Some(<<>>)
                     ELSE Some(to_hex(d.latest_commit[1].commit_id)),
     last_updated |-> IF d.latest_commit = None THEN Some(0)
                      ELSE Some(d.latest_commit[1].timestamp)]

\* DatabaseInfo::new
DatabaseInfo_new(d) ==
    [advisory_count |-> Len(d.advisories),
     last_commit |-> Option_map_commit_id(d.latest_commit),
     last_updated |-> Option_map_timestamp(d.latest_commit)]

\* LockfileInfo::new
LockfileInfo_new(l) == [dependency_count |-> Len(l.packages)]

\* VulnerabilityInfo::new with found computed as "more than one"
VulnerabilityInfo_new_FoundOffByOne(list) ==
    [found |-> Len(list) > 1, count |-> Len(list), list |-> list]

\* VulnerabilityInfo::new
VulnerabilityInfo_new(list) ==
    [found |-> list # <<>>, count |-> Len(list), list |-> list]

\* A map that starts with a bucket for every kind
WarningInfo_default_Prefilled == [k \in WarningKinds |-> <<>>]

\* WarningInfo::default(): the map without keys
WarningInfo_default == [k \in {} |-> <<>>]

\* find_warnings without its ignore test
IsIgnored_Never(s, advisory) == FALSE

\* find_warnings, line 186
IsIgnored(s, advisory) == Contains(s.ignore, advisory.id)

\* find_warnings, lines 190-193: Iterator::any over informational_warnings
RECURSIVE AnyInformational(_, _)
AnyInformational(infos, informational) ==
    IF infos = <<>> THEN FALSE
    ELSE IF Some(Head(infos)) = informational THEN TRUE
    ELSE AnyInformational(Tail(infos), informational)

\* The category test letting advisories without a category through
IsRequested_NoneCounts(s, advisory) ==
    \/ advisory.informational = None
    \/ AnyInformational(s.informational_warnings, advisory.informational)

IsRequested(s, advisory) ==
    AnyInformational(s.informational_warnings, advisory.informational)

\* Warning::new
Warning_new(kind, package, advisory, versions) ==
    [kind |-> kind, package |-> package, advisory |-> advisory,
     versions |-> versions]

\* The entry looked up by whichever key the map already has
Entry_push_WrongKey(w, warning) ==
    IF DOMAIN w # {}
    THEN LET key == CHOOSE k \in DOMAIN w : TRUE
         IN [w EXCEPT ![key] = Append(@, warning)]
    ELSE [k \in {warning.kind} |-> <<warning>>]

\* An occupied entry gets the warning at its front
Entry_push_Prepend(w, warning) ==
    IF warning.kind \in DOMAIN w
    THEN [w EXCEPT ![warning.kind] = <<warning>> \o @]
    ELSE [k \in DOMAIN w \cup {warning.kind} |->
            IF k = warning.kind THEN <<warning>> ELSE w[k]]

\* find_warnings, lines 212-217: push on an occupied entry, insert a
\* one-element vector on a vacant one
Entry_push(w, warning) ==
    IF warning.kind \in DOMAIN w
    THEN [w EXCEPT ![warning.kind] = Append(@, warning)]
    ELSE [k \in DOMAIN w \cup {warning.kind} |->
            IF k = warning.kind THEN <<warning>> ELSE w[k]]

\* ------------------------------------------------------------ the machine
NoReport == None

Init ==
    /\ db \in Databases
    /\ lockfile \in Lockfiles
    /\ settings \in SettingsSet
    /\ pc = "generate"
    /\ base_query = Query_crate_scope
    /\ base_matches = <<>>
    /\ vulnerabilities = <<>>
    /\ query = Query_crate_scope
    /\ matches = <<>>
    /\ i = 1
    /\ warnings = WarningInfo_default
    /\ report = NoReport
    /\ first = None

\* Report::generate, lines 41-45
CollectVulnerabilities ==
    /\ pc = "generate"
    /\ base_query' = Settings_query(settings)
    /\ base_matches' = query_vulnerabilities(db, lockfile, base_query')
    /\ vulnerabilities' = FilterIgnored(settings, base_matches')
    /\ pc' = "find_warnings"
    /\ UNCHANGED <<db, lockfile, settings, query, matches, i, warnings,
                   report, first>>

\* find_warnings going on with a map kept from an earlier call
FindWarningsBegin_Stale ==
    /\ pc = "find_warnings"
    /\ query' = Query_informational(Settings_query(settings), TRUE)
    /\ warnings' = IF first = None THEN WarningInfo_default
                   ELSE first[1].report.warnings
    /\ matches' = query_vulnerabilities(db, lockfile, query')
    /\ i' = 1
    /\ pc' = "loop"
    /\ UNCHANGED <<db, lockfile, settings, base_query, base_matches, vulnerabilities,
                   report, first>>

\* find_warnings, lines 178-183: the query, the empty map, the iterator
FindWarningsBegin ==
    /\ pc = "find_warnings"
    /\ query' = Query_informational(Settings_query(settings), TRUE)
    /\ warnings' = WarningInfo_default
    /\ matches' = query_vulnerabilities(db, lockfile, query')
    /\ i' = 1
    /\ pc' = "loop"
    /\ UNCHANGED <<db, lockfile, settings, base_query, base_matches, vulnerabilities,
                   report, first>>

\* find_warnings, lines 183-219: one iteration of the loop
LoopStep ==
    /\ pc = "loop"
    /\ i <= Len(matches)
    /\ LET advisory_vuln == matches[i]
           advisory == advisory_vuln.advisory
       IN IF IsIgnored(settings, advisory)
          THEN /\ warnings' = warnings
               /\ pc' = "loop"
          ELSE IF IsRequested(settings, advisory)
          THEN IF advisory.informational = None
               THEN \* expect("informational advisory") panics
                    /\ warnings' = warnings
                    /\ pc' = "panicked"
               ELSE LET kind == warning_kind(advisory.informational[1])
                    IN IF kind = None
                       THEN /\ warnings' = warnings
                            /\ pc' = "loop"
                       ELSE /\ warnings' =
                                 Entry_push(warnings,
                                     Warning_new(kind[1],
                                         advisory_vuln.package,
                                         Some(advisory),
                                         Some(advisory_vuln.versions)))
                            /\ pc' = "loop"
          ELSE /\ warnings' = warnings
               /\ pc' = "loop"
    /\ i' = i + 1
    /\ UNCHANGED <<db, lockfile, settings, base_query, base_matches, vulnerabilities,
                   query, matches, report, first>>

\* find_warnings, line 221, and Report::generate, lines 49-56
Assemble ==
    /\ pc = "loop"
    /\ i > Len(matches)
    /\ report' = Some([database |-> DatabaseInfo_new(db),
                       lockfile |-> LockfileInfo_new(lockfile),
                       settings |-> settings,
                       vulnerabilities |-> VulnerabilityInfo_new(vulnerabilities),
                       warnings |-> warnings])
    /\ pc' = "done"
    /\ UNCHANGED <<db, lockfile, settings, base_query, base_matches, vulnerabilities,
                   query, matches, i, warnings, first>>

\* A later call of Report::generate on the same database and lockfile:
\* the call after the first one has other settings, every later one has
\* the settings of the first call or other ones.  The locals of the
\* returned call are gone; the caller keeps the first Report.
OtherSettings(s) ==
    IF s = DefaultSettings
    THEN [DefaultSettings EXCEPT !.informational_warnings = <<"unsound">>]
    ELSE DefaultSettings

GenerateAgain ==
    /\ pc = "done"
    /\ first' = IF first = None
                THEN Some([settings |-> settings, report |-> report[1]])
                ELSE first
    /\ settings' \in IF first = None
                     THEN {OtherSettings(settings)}
                     ELSE {first[1].settings, OtherSettings(first[1].settings)}
    /\ pc' = "generate"
    /\ base_query' = Query_crate_scope
    /\ base_matches' = <<>>
    /\ vulnerabilities' = <<>>
    /\ query' = Query_crate_scope
    /\ matches' = <<>>
    /\ i' = 1
    /\ warnings' = WarningInfo_default
    /\ report' = NoReport
    /\ UNCHANGED <<db, lockfile>>

Next ==
    \/ CollectVulnerabilities
    \/ FindWarningsBegin
    \/ LoopStep
    \/ Assemble
    \/ GenerateAgain

Spec == Init /\ [][Next]_vars

\* ------------------------------------------------- vocabulary of the claims
\* find_warnings' loop is running or has returned: query, matches, i and
\* warnings belong to the current call
InFindWarnings == pc \in {"loop", "panicked", "done"}

\* The current call has returned its Report
Returned == pc = "done"

\* The matches the loop has finished with
Processed == SubSeq(matches, 1, i - 1)

Count(seq, x) == Cardinality({k \in 1..Len(seq) : seq[k] = x})

Ignored(m) == m.advisory.id \in Range(settings.ignore)

HasKind(m, kind) ==
    /\ m.advisory.informational # None
    /\ warning_kind(m.advisory.informational[1]) = Some(kind)

\* The three inclusion conditions of the warning pass
Passes(m) ==
    /\ ~Ignored(m)
    /\ m.advisory.informational # None
    /\ m.advisory.informational[1] \in Range(settings.informational_warnings)
    /\ \E kind \in WarningKinds : HasKind(m, kind)

\* The match a Warning was built from
MatchOf(w) ==
    [advisory |-> w.advisory[1], package |-> w.package,
     versions |-> w.versions[1]]

\* Positions <<key, index>> of the Warnings stored in the map
Slots(w) == UNION {{<<k, j>> : j \in 1..Len(w[k])} : k \in DOMAIN w}

WarningsFor(m) ==
    Cardinality({sl \in Slots(warnings) :
                    MatchOf(warnings[sl[1]][sl[2]]) = m})

RECURSIVE IsSubseq(_, _)
IsSubseq(a, b) ==
    IF a = <<>> THEN TRUE
    ELSE IF b = <<>> THEN FALSE
    ELSE IF Head(a) = Head(b) THEN IsSubseq(Tail(a), Tail(b))
    ELSE IsSubseq(a, Tail(b))

IsPrefix(a, b) == Len(a) <= Len(b) /\ SubSeq(b, 1, Len(a)) = a

TypeOK ==
    /\ pc \in {"generate", "find_warnings", "loop", "panicked", "done"}
    /\ i \in 1..(Len(matches) + 1)
    /\ DOMAIN warnings \subseteq WarningKinds

\* ------------------------------------------------------------------ claims
\* C1 - Warning inclusion law: at every point of find_warnings' loop and in
\* its result, every processed match that passes the three conditions (not
\* ignored, category requested, category has a kind) has exactly one
\* Warning per time it was returned, every other processed match has none,
\* and the number of Warnings over all buckets is the number of processed
\* matches that pass.
C1_WarningInclusion ==
    InFindWarnings =>
        /\ \A m \in Range(Processed) :
              WarningsFor(m) = IF Passes(m) THEN Count(Processed, m) ELSE 0
        /\ Cardinality(Slots(warnings)) =
              Cardinality({k \in 1..Len(Processed) : Passes(Processed[k])})

C1_Witness ==
    /\ Returned
    /\ \E m \in Range(matches) : Passes(m)
    /\ \E m \in Range(matches) : ~Passes(m)

\* C2 - Ignore law: a match of the base query is in
\* report.vulnerabilities.list exactly when its advisory id is not in
\* settings.ignore, the list is a subsequence of the query result, and
\* every surviving match occurs as often as it was returned.
C2_IgnoreLaw ==
    Returned =>
        LET list == report[1].vulnerabilities.list
        IN /\ \A k \in 1..Len(base_matches) :
                 (base_matches[k] \in Range(list)) <=> ~Ignored(base_matches[k])
           /\ IsSubseq(list, base_matches)
           /\ \A v \in Range(list) : Count(list, v) = Count(base_matches, v)

C2_Witness ==
    /\ Returned
    /\ \E v \in Range(base_matches) : Ignored(v)
    /\ \E v \in Range(base_matches) : ~Ignored(v)
    /\ report[1].vulnerabilities.list # <<>>

\* C3 - In every returned Report, vulnerabilities.count is the length of
\* vulnerabilities.list and vulnerabilities.found is (count > 0).
C3_VulnerabilityInfo ==
    Returned =>
        LET info == report[1].vulnerabilities
        IN /\ info.count = Len(info.list)
           /\ info.found = (info.count > 0)

C3_Witness ==
    /\ Returned
    /\ report[1].vulnerabilities.count = 2
    /\ settings.ignore # <<>>

\* C4 - Grouping law: every Warning in the map is stored under the key that
\* is its own kind, which is the kind of its advisory's informational
\* category, and no Warning is stored under two different keys.
C4_Grouping ==
    InFindWarnings =>
        /\ \A sl \in Slots(warnings) :
              LET w == warnings[sl[1]][sl[2]]
              IN /\ w.kind = sl[1]
                 /\ HasKind(MatchOf(w), sl[1])
        /\ \A k1, k2 \in DOMAIN warnings :
              k1 # k2 => Range(warnings[k1]) \cap Range(warnings[k2]) = {}

C4_Witness ==
    /\ pc = "loop"
    /\ DOMAIN warnings = WarningKinds
    /\ \A k \in DOMAIN warnings : warnings[k] # <<>>

\* C5 - Discovery order: every bucket holds the Warnings of the processed
\* passing matches of its kind in the order the query returned them, and
\* an iteration of the loop leaves every existing bucket a prefix of
\* itself, changes at most one bucket and adds at most one Warning, at the
\* end of that bucket.
C5_BucketOrder ==
    InFindWarnings =>
        \A k \in DOMAIN warnings :
            LET OfKind(m) == Passes(m) /\ HasKind(m, k)
            IN [j \in 1..Len(warnings[k]) |-> MatchOf(warnings[k][j])]
                 = SelectSeq(Processed, OfKind)

C5_AppendOnly ==
    (pc = "loop" /\ i' = i + 1) =>
        /\ \A k \in DOMAIN warnings :
              /\ k \in DOMAIN warnings'
              /\ IsPrefix(warnings[k], warnings'[k])
        /\ Cardinality({k \in DOMAIN warnings' :
                          k \notin DOMAIN warnings
                            \/ warnings'[k] # warnings[k]}) <= 1
        /\ Cardinality(Slots(warnings')) <= Cardinality(Slots(warnings)) + 1

C5_DiscoveryOrder == [](C5_BucketOrder) /\ [][C5_AppendOnly]_vars

C5_Witness ==
    /\ InFindWarnings
    /\ \E k \in DOMAIN warnings :
          /\ Len(warnings[k]) = 2
          /\ warnings[k][1] # warnings[k][2]

\* C6 (as claimed) - An iteration of the loop over a match whose advisory
\* has no informational payload panics.
C6_PanicsOnMissingPayload ==
    [][(pc = "loop" /\ i <= Len(matches)
          /\ matches[i].advisory.informational = None)
        => pc' = "panicked"]_vars

\* C6 (amended) - An iteration of the loop over a match whose advisory has
\* no informational payload passes the match over: it never panics, leaves
\* the map as it is and goes on to the next match.
C6_SkipsMissingPayload ==
    [][(pc = "loop" /\ i <= Len(matches)
          /\ matches[i].advisory.informational = None)
        => (pc' = "loop" /\ warnings' = warnings /\ i' = i + 1)]_vars

C6_Witness ==
    /\ pc = "loop"
    /\ i > 1
    /\ matches[i - 1].advisory.informational = None
    /\ ~Ignored(matches[i - 1])
    /\ settings.informational_warnings # <<>>

\* C7 - Both queries carry exactly the settings' architecture, operating
\* system and minimum severity, the query of find_warnings is the base
\* query with informational mode switched on, and no advisory below the
\* minimum severity is in the vulnerability list or in a warning bucket.
C7_QueryStageFiltering ==
    InFindWarnings =>
        /\ base_query = [collection |-> "crates",
                         target_arch |-> settings.target_arch,
                         target_os |-> settings.target_os,
                         severity |-> settings.severity,
                         informational |-> FALSE]
        /\ query = [base_query EXCEPT !.informational = TRUE]
        /\ settings.severity # None =>
              /\ \A v \in Range(vulnerabilities) :
                    SeverityRank(v.advisory.severity)
                      >= SeverityRank(settings.severity[1])
              /\ \A sl \in Slots(warnings) :
                    SeverityRank(warnings[sl[1]][sl[2]].advisory[1].severity)
                      >= SeverityRank(settings.severity[1])

C7_Witness ==
    /\ Returned
    /\ settings.severity # None
    /\ settings.target_arch # None
    /\ settings.ignore # <<>>
    /\ \E a \in Range(db.advisories) :
          /\ a.package \in Range(lockfile.packages)
          /\ SeverityRank(a.severity) < SeverityRank(settings.severity[1])
    /\ DOMAIN warnings # {}

\* C8 - Idempotence: a call of generate with the settings of the first
\* call returns the Report of the first call, after a call with other
\* settings and after a call with the same settings alike; every returned Report carries the settings passed in; no step
\* changes the database or the lockfile, and no step of a call changes
\* the settings.
C8_SameReport ==
    (Returned /\ first # None /\ first[1].settings = settings)
        => report[1] = first[1].report

C9_Provenance ==
    Returned =>
        LET info == report[1].database
        IN /\ info.advisory_count = Len(db.advisories)
           /\ (info.last_commit # None) <=> (db.latest_commit # None)
           /\ (info.last_updated # None) <=> (db.latest_commit # None)
           /\ db.latest_commit = None =>
                 /\ info.last_commit # Some(<<>>)
                 /\ info.last_updated # Some(0)

C9_Witness ==
    /\ Returned
    /\ db.latest_commit = None
    /\ report[1].database.advisory_count = MaxAdvisories

\* C10 - No empty bucket: a kind is a key of the map exactly when a
\* processed match passed the three conditions and has that kind, and
\* every bucket holds at least one Warning.
C10_NoEmptyBucket ==
    InFindWarnings =>
        /\ DOMAIN warnings =
              {k \in WarningKinds :
                  \E m \in Range(Processed) : Passes(m) /\ HasKind(m, k)}
        /\ \A k \in DOMAIN warnings : warnings[k] # <<>>

C10_Witness ==
    /\ Returned
    /\ matches # <<>>
    /\ settings.informational_warnings # <<>>
    /\ DOMAIN warnings = {}

====
